---- MODULE Spec2Model ----
(***************************************************************************)
(* A model of pr_agent/tools/pr_code_suggestions.py: PRCodeSuggestions.run *)
(* and the steps it sequences (prediction, parsing, the extended multi-    *)
(* chunk pass, ranking, and publication).                                  *)
(***************************************************************************)
EXTENDS Integers, Sequences, FiniteSets, TLC

\* Bounds of the model.
MaxSugg == 2        \* entries in one model response
MaxChunks == 2      \* diff chunks returned by get_pr_multi_diffs
MaxRank == 2        \* suggestions handed to rank_suggestions on its own
NumModels == 2      \* the model and its fallback models
MaxSnippet == 4     \* characters of a snippet handed to dedent_code

VARIABLES
    settings,           \* get_settings(): the configuration read by the run
    is_extended,        \* self.is_extended
    pc,                 \* position of the run
    model_idx,          \* retry_with_fallback_models: index of the model tried
    prediction,         \* self.prediction
    patches_diff_list,  \* the chunks of the extended pass
    prediction_list,    \* self.prediction_list as it is built
    parse_i,            \* index of the second loop of the extended pass
    data,               \* the dict `data`
    ext_events,         \* model calls and parses of the current extended pass
    rank_in,            \* the list handed to rank_suggestions
    rank_response,      \* the ranking model's response
    code_suggestions,   \* push_inline_code_suggestions: the built comments
    push_i,             \* index of the individual-publish loop
    published,          \* calls made on the git provider, in order
    failed,             \* the steps that raised
    run_result,         \* "running", "returned" or "raised"
    provider,           \* git_provider.diff_files and what get_diff_files does
    diff_files,         \* self.diff_files
    dedent_args,        \* dedent_code: the arguments of the call
    original_initial_line,  \* dedent_code: the local of that name
    new_code_snippet,   \* dedent_code: the snippet as it is rebound
    dedent_result       \* dedent_code: "idle", "running", "returned" or "raised"

vars == <<settings, is_extended, pc, model_idx, prediction, patches_diff_list,
          prediction_list, parse_i, data, ext_events, rank_in, rank_response,
          code_suggestions, push_i, published, failed, run_result,
          provider, diff_files, dedent_args, original_initial_line,
          new_code_snippet, dedent_result>>

\* the state of a call of dedent_code
dedent_vars ==
    <<provider, diff_files, dedent_args, original_initial_line, new_code_snippet,
      dedent_result>>

----------------------------------------------------------------------------
\* Data

Code == {"x=1", "x=2"}

\* relevant_lines_start as the model writes it: int("10") = 10, int("ten") raises
LineValues == {"10", "ten"}

Suggestions ==
    [existing_code : Code, improved_code : Code, relevant_lines_start : LineValues]

\* `[]`, the filler of data_sorted = [[]] * len(suggestion_list)
EmptySlot == [empty_list |-> TRUE]

IsSuggestion(d) == "existing_code" \in DOMAIN d

RECURSIVE SeqsUpTo(_, _)
SeqsUpTo(S, n) ==
    IF n = 0 THEN {<<>>}
    ELSE LET shorter == SeqsUpTo(S, n - 1)
         IN  shorter \cup {Append(s, x) : s \in {t \in shorter : Len(t) = n - 1}, x \in S}

\* The dict `data`: {} or {'code_suggestions': [...]}
EmptyDict == [has_key |-> FALSE, code_suggestions |-> <<>>]

DictOf(list) == [has_key |-> TRUE, code_suggestions |-> list]

\* A model response, by what load_yaml makes of it
Prediction(shape, entries) == [shape |-> shape, entries |-> entries]

InvalidPrediction == Prediction("invalid", <<>>)

PredictionsOver(pool, shapes) ==
    {Prediction(sh, es) : sh \in shapes, es \in SeqsUpTo(pool, MaxSugg)}
        \cup {InvalidPrediction}

----------------------------------------------------------------------------
\* _prepare_pr_code_suggestions

\* load_yaml(review, keys_fix_yaml=...): a list, a dict, or nothing usable
LoadYaml(review) ==
    CASE review.shape = "list" -> [ok |-> TRUE, is_list |-> TRUE, items |-> review.entries]
      [] review.shape = "dict" -> [ok |-> TRUE, is_list |-> FALSE, items |-> review.entries]
      [] OTHER -> [ok |-> FALSE, is_list |-> FALSE, items |-> <<>>]

KeepsEverySuggestion(suggestion) == TRUE

\* the test of the loop that removes invalid suggestions
KeepsSuggestion(suggestion) ==
    suggestion.existing_code # suggestion.improved_code

RECURSIVE FilterLoop(_, _, _)
FilterLoop(items, i, suggestion_list) ==
    IF i > Len(items) THEN suggestion_list
    ELSE FilterLoop(items, i + 1,
                    IF KeepsSuggestion(items[i])
                    THEN Append(suggestion_list, items[i])
                    ELSE suggestion_list)

\* The result: raised (data['code_suggestions'] of something that is no dict
\* with that key), or the dict with its filtered list
PreparePrCodeSuggestions(pred) ==
    LET loaded == LoadYaml(pred)
    IN  IF ~loaded.ok
        THEN [raised |-> TRUE, data |-> EmptyDict]
        ELSE [raised |-> FALSE, data |-> DictOf(FilterLoop(loaded.items, 1, <<>>))]

----------------------------------------------------------------------------
\* rank_suggestions

\* Python's list index: k in -n..n-1 is a position, anything else IndexError
IndexOk(k, n) == -n <= k /\ k < n

PyIndex(k, n) == IF k >= 0 THEN k + 1 ELSE n + k + 1

SortTargetOneBased(importance_order) == importance_order

\* data_sorted[importance_order - 1]
SortTarget(importance_order) == importance_order - 1

\* the loop over sort_order['Sort Order']
RECURSIVE PlaceLoop(_, _, _, _)
PlaceLoop(suggestion_list, sort_order, k, data_sorted) ==
    IF k > Len(sort_order) THEN [raised |-> FALSE, data_sorted |-> data_sorted]
    ELSE LET n == Len(suggestion_list)
             suggestion_number == sort_order[k][1]
             importance_order == sort_order[k][2]
         IN  IF ~IndexOk(suggestion_number - 1, n) \/ ~IndexOk(SortTarget(importance_order), n)
             THEN [raised |-> TRUE, data_sorted |-> data_sorted]
             ELSE PlaceLoop(suggestion_list, sort_order, k + 1,
                            [data_sorted EXCEPT ![PyIndex(SortTarget(importance_order), n)] =
                                 suggestion_list[PyIndex(suggestion_number - 1, n)]])

Max2(a, b) == IF a >= b THEN a ELSE b

\* int(0.5 + max_len * final_clip_factor), the factor being num/den >= 0
NewLen(max_len, factor) ==
    (2 * max_len * factor.num + factor.den) \div (2 * factor.den)

ClipMaxLenOfListOnly(data_sorted, st) == Len(data_sorted)

ClipMaxLen(data_sorted, st) ==
    Max2(Len(data_sorted), Max2(st.num_code_suggestions, st.num_code_suggestions_per_chunk))

Clip(data_sorted, st) ==
    IF st.final_clip_factor.num # st.final_clip_factor.den
    THEN LET new_len == NewLen(ClipMaxLen(data_sorted, st), st.final_clip_factor)
         IN  IF new_len < Len(data_sorted)
             THEN SubSeq(data_sorted, 1, new_len)
             ELSE data_sorted
    ELSE data_sorted

\* A ranking response: the call or load_yaml raised (ok = FALSE), or the pairs
\* <<suggestion number, importance order>> of its Sort Order
RankResponse(ok, sort_order) == [ok |-> ok, sort_order |-> sort_order]

RankSuggestions(suggestion_list, response, st) ==
    LET n == Len(suggestion_list)
        placed == PlaceLoop(suggestion_list, response.sort_order, 1,
                            [i \in 1..n |-> EmptySlot])
    IN  IF ~response.ok \/ placed.raised
        THEN suggestion_list
        ELSE Clip(placed.data_sorted, st)

----------------------------------------------------------------------------
\* Rendering

IntOk(text) == text = "10"

\* the try block of the loop of push_inline_code_suggestions: an item that is
\* no dict (an unfilled slot) or whose int(...) raises is skipped
Coercible(d) == IsSuggestion(d) /\ IntOk(d.relevant_lines_start)

InlineComment(d) ==
    [body |-> d.improved_code, relevant_lines_start |-> 10]

RECURSIVE BuildLoop(_, _, _)
BuildLoop(list, i, built) ==
    IF i > Len(list) THEN built
    ELSE BuildLoop(list, i + 1,
                   IF Coercible(list[i])
                   THEN Append(built, InlineComment(list[i]))
                   ELSE built)

NoSuggestionsText == "No suggestions found to improve this PR."

\* generate_summarized_suggestions: the fixed message, the table, or "" when
\* anything in the rendering raised
GenerateSummarizedSuggestions(d) ==
    IF Len(d.code_suggestions) = 0 THEN NoSuggestionsText
    ELSE IF \E i \in 1..Len(d.code_suggestions) : ~Coercible(d.code_suggestions[i])
         THEN ""
         ELSE "<table>"

\* Calls on the git provider
PublishComment(text) == [call |-> "publish_comment", text |-> text]

RemoveInitialComment == [call |-> "remove_initial_comment"]

\* publish_code_suggestions(list), with the is_successful it returned
PublishCodeSuggestions(list, is_successful) ==
    [call |-> "publish_code_suggestions", comments |-> list, returned |-> is_successful]

\* publish_code_suggestions([code_suggestion]): what it returns is not read
PublishOneCodeSuggestion(code_suggestion) ==
    [call |-> "publish_code_suggestions", comments |-> <<code_suggestion>>]

----------------------------------------------------------------------------
\* run: the try block and its handler

TryCoversAllButPublishComment(step) == step # "publish_comment"

\* every step of run is inside the try
TryCovers(step) == TRUE

Goto(p) ==
    /\ pc' = p
    /\ run_result' = IF p = "done" THEN "returned" ELSE run_result
    /\ failed' = failed

RaiseInRun(step) ==
    /\ failed' = failed \cup {step}
    /\ IF TryCovers(step)
       THEN pc' = "run_except" /\ run_result' = run_result
       ELSE pc' = "done" /\ run_result' = "raised"

\* except Exception as e: the error is logged and run returns
RunExcept ==
    /\ pc = "run_except"
    /\ Goto("done")
    /\ UNCHANGED <<dedent_vars, settings, is_extended, model_idx, prediction, patches_diff_list,
                   prediction_list, parse_i, data, ext_events, rank_in, rank_response,
                   code_suggestions, push_i, published>>

RunStart ==
    /\ pc = "start"
    /\ \/ /\ settings.publish_output
          /\ published' = Append(published, PublishComment("Preparing suggestions..."))
          /\ Goto(IF is_extended THEN "ext_get_diffs" ELSE "prepare")
       \/ /\ settings.publish_output
          /\ RaiseInRun("publish_comment")
          /\ UNCHANGED published
       \/ /\ ~settings.publish_output
          /\ Goto(IF is_extended THEN "ext_get_diffs" ELSE "prepare")
          /\ UNCHANGED published
    /\ UNCHANGED <<dedent_vars, settings, is_extended, model_idx, prediction, patches_diff_list,
                   prediction_list, parse_i, data, ext_events, rank_in, rank_response,
                   code_suggestions, push_i>>

\* _prepare_prediction under one model: get_pr_diff, then _get_prediction
PreparePrediction(predictions) ==
    /\ pc = "prepare"
    /\ \/ /\ \E p \in predictions : prediction' = p
          /\ Goto("parse")
       \/ /\ pc' = "prepare_raised"
          /\ failed' = failed \cup {"model_call"}
          /\ UNCHANGED <<prediction, run_result>>
    /\ UNCHANGED <<dedent_vars, settings, is_extended, model_idx, patches_diff_list,
                   prediction_list, parse_i, data, ext_events, rank_in, rank_response,
                   code_suggestions, push_i, published>>

\* retry_with_fallback_models: the unit of work is tried again, whole, with the
\* next model; the last model's exception is raised again
RetryWithFallbackModels ==
    /\ pc \in {"prepare_raised", "ext_raised"}
    /\ \/ /\ model_idx < NumModels
          /\ model_idx' = model_idx + 1
          /\ Goto(IF pc = "prepare_raised" THEN "prepare" ELSE "ext_get_diffs")
       \/ /\ model_idx >= NumModels
          /\ RaiseInRun("retry_with_fallback_models")
          /\ UNCHANGED model_idx
    /\ UNCHANGED <<dedent_vars, settings, is_extended, prediction, patches_diff_list,
                   prediction_list, parse_i, data, ext_events, rank_in, rank_response,
                   code_suggestions, push_i, published>>

\* data = self._prepare_pr_code_suggestions() of the compact mode
RunParse ==
    /\ pc = "parse"
    /\ LET r == PreparePrCodeSuggestions(prediction)
       IN  \/ /\ ~r.raised
              /\ data' = r.data
              /\ Goto("check_data")
           \/ /\ r.raised
              /\ RaiseInRun("parse")
              /\ UNCHANGED data
    /\ UNCHANGED <<dedent_vars, settings, is_extended, model_idx, prediction, patches_diff_list,
                   prediction_list, parse_i, ext_events, rank_in, rank_response,
                   code_suggestions, push_i, published>>

----------------------------------------------------------------------------
\* _prepare_prediction_extended, under one model

\* get_pr_multi_diffs(...): the chunks, or the call raises
ExtGetDiffs ==
    /\ pc = "ext_get_diffs"
    /\ \/ /\ \E n \in 0..MaxChunks : patches_diff_list' = [i \in 1..n |-> i]
          /\ prediction_list' = <<>>
          /\ ext_events' = <<>>
          /\ Goto("ext_call")
       \/ /\ pc' = "ext_raised"
          /\ failed' = failed \cup {"get_diff"}
          /\ UNCHANGED <<patches_diff_list, prediction_list, ext_events, run_result>>
    /\ UNCHANGED <<dedent_vars, settings, is_extended, model_idx, prediction, parse_i, data,
                   rank_in, rank_response, code_suggestions, push_i, published>>

CallLoopDoneAfterOne ==
    Len(prediction_list) >= 1 \/ Len(patches_diff_list) = 0

\* the first loop has gone through patches_diff_list
CallLoopDone == Len(prediction_list) = Len(patches_diff_list)

\* one turn of the first loop: the prompt of chunk i is built and its model call made
ExtModelCall(predictions) ==
    /\ pc = "ext_call"
    /\ ~CallLoopDone
    /\ ext_events' = Append(ext_events, <<"call", Len(prediction_list) + 1>>)
    /\ \/ /\ \E p \in predictions : prediction_list' = Append(prediction_list, p)
          /\ Goto("ext_call")
       \/ /\ pc' = "ext_raised"
          /\ failed' = failed \cup {"model_call"}
          /\ UNCHANGED <<prediction_list, run_result>>
    /\ UNCHANGED <<dedent_vars, settings, is_extended, model_idx, prediction, patches_diff_list,
                   parse_i, data, rank_in, rank_response, code_suggestions, push_i,
                   published>>

\* self.prediction_list = prediction_list; data = {}
ExtCallsDone ==
    /\ pc = "ext_call"
    /\ CallLoopDone
    /\ data' = EmptyDict
    /\ parse_i' = 1
    /\ Goto("ext_parse")
    /\ UNCHANGED <<dedent_vars, settings, is_extended, model_idx, prediction, patches_diff_list,
                   prediction_list, ext_events, rank_in, rank_response,
                   code_suggestions, push_i, published>>

MergeChunkOverwriting(d, data_per_chunk) == data_per_chunk

\* data["code_suggestions"].extend(...) or data.update(data_per_chunk)
MergeChunk(d, data_per_chunk) ==
    IF d.has_key
    THEN DictOf(d.code_suggestions \o data_per_chunk.code_suggestions)
    ELSE data_per_chunk

ExtParseIsolating ==
    /\ pc = "ext_parse"
    /\ parse_i <= Len(prediction_list)
    /\ prediction' = prediction_list[parse_i]
    /\ ext_events' = Append(ext_events, <<"parse", parse_i>>)
    /\ LET r == PreparePrCodeSuggestions(prediction_list[parse_i])
       IN  data' = IF r.raised THEN data ELSE MergeChunk(data, r.data)
    /\ parse_i' = parse_i + 1
    /\ Goto("ext_parse")
    /\ UNCHANGED <<dedent_vars, settings, is_extended, model_idx, patches_diff_list,
                   prediction_list, rank_in, rank_response, code_suggestions, push_i,
                   published>>

\* one turn of the second loop: the response of chunk parse_i is parsed and merged
ExtParse ==
    /\ pc = "ext_parse"
    /\ parse_i <= Len(prediction_list)
    /\ prediction' = prediction_list[parse_i]
    /\ ext_events' = Append(ext_events, <<"parse", parse_i>>)
    /\ LET r == PreparePrCodeSuggestions(prediction_list[parse_i])
       IN  \/ /\ ~r.raised
              /\ data' = MergeChunk(data, r.data)
              /\ parse_i' = parse_i + 1
              /\ Goto("ext_parse")
           \/ /\ r.raised
              /\ pc' = "ext_raised"
              /\ failed' = failed \cup {"parse"}
              /\ UNCHANGED <<data, parse_i, run_result>>
    /\ UNCHANGED <<dedent_vars, settings, is_extended, model_idx, patches_diff_list,
                   prediction_list, rank_in, rank_response, code_suggestions, push_i,
                   published>>

\* self.data = data; return data
ExtReturn ==
    /\ pc = "ext_parse"
    /\ parse_i > Len(prediction_list)
    /\ Goto("check_data")
    /\ UNCHANGED <<dedent_vars, settings, is_extended, model_idx, prediction, patches_diff_list,
                   prediction_list, parse_i, data, ext_events, rank_in, rank_response,
                   code_suggestions, push_i, published>>

----------------------------------------------------------------------------
\* run, after the prediction

RankEnabled ==
    \/ ~is_extended /\ settings.rank_suggestions
    \/ is_extended /\ settings.rank_extended_suggestions

\* if (not data) or (not 'code_suggestions' in data): return
RunCheckData ==
    /\ pc = "check_data"
    /\ \/ /\ ~data.has_key
          /\ Goto("done")
       \/ /\ data.has_key
          /\ Goto(IF RankEnabled THEN "rank" ELSE "publish")
    /\ UNCHANGED <<dedent_vars, settings, is_extended, model_idx, prediction, patches_diff_list,
                   prediction_list, parse_i, data, ext_events, rank_in, rank_response,
                   code_suggestions, push_i, published>>

\* data['code_suggestions'] = await self.rank_suggestions(data['code_suggestions'])
RankStep(responses) ==
    /\ pc = "rank"
    /\ \E response \in responses :
          /\ rank_response' = response
          /\ data' = DictOf(RankSuggestions(data.code_suggestions, response, settings))
    /\ rank_in' = data.code_suggestions
    /\ Goto("publish")
    /\ UNCHANGED <<dedent_vars, settings, is_extended, model_idx, prediction, patches_diff_list,
                   prediction_list, parse_i, ext_events, code_suggestions, push_i,
                   published>>

\* if get_settings().config.publish_output: remove_initial_comment(), then one
\* of the two renderers
RunPublish ==
    /\ pc = "publish"
    /\ \/ /\ ~settings.publish_output
          /\ Goto("done")
          /\ UNCHANGED published
       \/ /\ settings.publish_output
          /\ published' = Append(published, RemoveInitialComment)
          /\ Goto(IF settings.summarize THEN "summarize" ELSE "push")
       \/ /\ settings.publish_output
          /\ RaiseInRun("remove_initial_comment")
          /\ UNCHANGED published
    /\ UNCHANGED <<dedent_vars, settings, is_extended, model_idx, prediction, patches_diff_list,
                   prediction_list, parse_i, data, ext_events, rank_in, rank_response,
                   code_suggestions, push_i>>

\* pr_body = self.generate_summarized_suggestions(data); publish_comment(pr_body)
RunSummarize ==
    /\ pc = "summarize"
    /\ \/ /\ published' = Append(published,
                                 PublishComment(GenerateSummarizedSuggestions(data)))
          /\ Goto("done")
       \/ /\ RaiseInRun("publish_comment")
          /\ UNCHANGED published
    /\ UNCHANGED <<dedent_vars, settings, is_extended, model_idx, prediction, patches_diff_list,
                   prediction_list, parse_i, data, ext_events, rank_in, rank_response,
                   code_suggestions, push_i>>

----------------------------------------------------------------------------
\* push_inline_code_suggestions

PushStart ==
    /\ pc = "push"
    /\ \/ /\ Len(data.code_suggestions) = 0
          /\ published' = Append(published, PublishComment(NoSuggestionsText))
          /\ Goto("done")
          /\ UNCHANGED code_suggestions
       \/ /\ Len(data.code_suggestions) = 0
          /\ RaiseInRun("publish_comment")
          /\ UNCHANGED <<published, code_suggestions>>
       \/ /\ Len(data.code_suggestions) > 0
          /\ code_suggestions' = BuildLoop(data.code_suggestions, 1, <<>>)
          /\ Goto("push_batch")
          /\ UNCHANGED published
    /\ UNCHANGED <<dedent_vars, settings, is_extended, model_idx, prediction, patches_diff_list,
                   prediction_list, parse_i, data, ext_events, rank_in, rank_response,
                   push_i>>

AfterBatchAlwaysEach(is_successful) == "push_each"

\* if not is_successful: the individual calls follow
AfterBatch(is_successful) == IF is_successful THEN "done" ELSE "push_each"

\* is_successful = self.git_provider.publish_code_suggestions(code_suggestions)
PushBatch ==
    /\ pc = "push_batch"
    /\ \/ /\ \E is_successful \in BOOLEAN :
                /\ published' = Append(published,
                                       PublishCodeSuggestions(code_suggestions, is_successful))
                /\ Goto(AfterBatch(is_successful))
          /\ push_i' = 1
       \/ /\ RaiseInRun("publish_code_suggestions")
          /\ UNCHANGED <<published, push_i>>
    /\ UNCHANGED <<dedent_vars, settings, is_extended, model_idx, prediction, patches_diff_list,
                   prediction_list, parse_i, data, ext_events, rank_in, rank_response,
                   code_suggestions>>

\* for code_suggestion in code_suggestions: publish_code_suggestions([code_suggestion])
PushEach ==
    /\ pc = "push_each"
    /\ \/ /\ push_i <= Len(code_suggestions)
          /\ published' = Append(published,
                                 PublishOneCodeSuggestion(code_suggestions[push_i]))
          /\ push_i' = push_i + 1
          /\ Goto("push_each")
       \/ /\ push_i <= Len(code_suggestions)
          /\ RaiseInRun("publish_code_suggestions")
          /\ UNCHANGED <<published, push_i>>
       \/ /\ push_i > Len(code_suggestions)
          /\ Goto("done")
          /\ UNCHANGED <<published, push_i>>
    /\ UNCHANGED <<dedent_vars, settings, is_extended, model_idx, prediction, patches_diff_list,
                   prediction_list, parse_i, data, ext_events, rank_in, rank_response,
                   code_suggestions>>

----------------------------------------------------------------------------
\* dedent_code

\* A text is a sequence of characters: a space, a tab, a line break, a letter
SP == "sp"
TAB == "tab"
NL == "nl"
X == "x"

\* what str.strip, str.lstrip and str.rstrip remove by default
Whitespace == {SP, TAB, NL}

\* str.lstrip()
RECURSIVE Lstrip(_)
Lstrip(s) == IF s # <<>> /\ Head(s) \in Whitespace THEN Lstrip(Tail(s)) ELSE s

\* str.rstrip(chars)
RECURSIVE RstripChars(_, _)
RstripChars(s, chars) ==
    IF s # <<>> /\ s[Len(s)] \in chars
    THEN RstripChars(SubSeq(s, 1, Len(s) - 1), chars)
    ELSE s

\* str.strip()
Strip(s) == RstripChars(Lstrip(s), Whitespace)

\* the index of the first line break at or after i, 0 if there is none
RECURSIVE FirstBreak(_, _)
FirstBreak(s, i) ==
    IF i > Len(s) THEN 0
    ELSE IF s[i] = NL THEN i
    ELSE FirstBreak(s, i + 1)

\* str.splitlines(True): the lines with their line breaks
RECURSIVE SplitlinesKeepends(_)
SplitlinesKeepends(s) ==
    IF s = <<>> THEN <<>>
    ELSE LET b == FirstBreak(s, 1)
         IN  IF b = 0 THEN <<s>>
             ELSE <<SubSeq(s, 1, b)>> \o SplitlinesKeepends(SubSeq(s, b + 1, Len(s)))

\* str.splitlines()
Splitlines(s) ==
    LET kept == SplitlinesKeepends(s)
    IN  [i \in 1..Len(kept) |-> RstripChars(kept[i], {NL})]

RECURSIVE Concat(_)
Concat(parts) == IF parts = <<>> THEN <<>> ELSE Head(parts) \o Concat(Tail(parts))

\* delta_spaces * " "
Spaces(n) == [i \in 1..n |-> SP]

\* textwrap.indent(text, prefix): the prefix goes before the lines that do not
\* consist solely of whitespace
TextwrapIndent(text, prefix) ==
    LET kept == SplitlinesKeepends(text)
    IN  Concat([i \in 1..Len(kept) |->
                   IF Strip(kept[i]) # <<>> THEN prefix \o kept[i] ELSE kept[i]])

\* len(line) - len(line.lstrip())
InitialSpaces(line) == Len(line) - Len(Lstrip(line))

\* None, for head_file
NoHead == [is_none |-> TRUE, text |-> <<>>]

HeadFile(text) == [is_none |-> FALSE, text |-> text]

\* None, for original_initial_line
NoLine == [is_none |-> TRUE, line |-> <<>>]

\* self.git_provider.diff_files if self.git_provider.diff_files
\* else self.git_provider.get_diff_files()
GetDiffFiles ==
    IF provider.diff_files # <<>>
    THEN [raised |-> FALSE, files |-> provider.diff_files]
    ELSE provider.get_diff_files

\* the first file of the loop with file.filename.strip() == relevant_file, 0 if none
RECURSIVE FirstMatch(_, _, _)
FirstMatch(files, relevant_file, i) ==
    IF i > Len(files) THEN 0
    ELSE IF Strip(files[i].filename) = relevant_file THEN i
    ELSE FirstMatch(files, relevant_file, i + 1)

\* the loop over self.diff_files: file.head_file.splitlines()[relevant_lines_start - 1]
\* of the first matching file; head_file None raises AttributeError, an index
\* outside the list raises IndexError, a negative index counts from the end
LookupLine(files, relevant_file, relevant_lines_start) ==
    LET m == FirstMatch(files, relevant_file, 1)
    IN  IF m = 0 THEN [raised |-> FALSE, found |-> NoLine]
        ELSE LET head_file == files[m].head_file
                 lines == Splitlines(head_file.text)
                 k == relevant_lines_start - 1
             IN  IF head_file.is_none \/ ~IndexOk(k, Len(lines))
                 THEN [raised |-> TRUE, found |-> NoLine]
                 ELSE [raised |-> FALSE,
                       found |-> [is_none |-> FALSE,
                                  line |-> lines[PyIndex(k, Len(lines))]]]

\* the try block up to the end of the loop
DedentLookup ==
    /\ pc = "dedent_lookup"
    /\ LET got == GetDiffFiles
       IN  IF got.raised
           THEN /\ pc' = "dedent_except"
                /\ UNCHANGED <<diff_files, original_initial_line>>
           ELSE LET looked == LookupLine(got.files, dedent_args.relevant_file,
                                         dedent_args.relevant_lines_start)
                IN  /\ diff_files' = got.files
                    /\ original_initial_line' = looked.found
                    /\ pc' = IF looked.raised THEN "dedent_except" ELSE "dedent_indent"
    /\ UNCHANGED <<provider, dedent_args, new_code_snippet, dedent_result>>
    /\ UNCHANGED <<settings, is_extended, model_idx, prediction, patches_diff_list,
                   prediction_list, parse_i, data, ext_events, rank_in, rank_response,
                   code_suggestions, push_i, published, failed, run_result>>

\* if original_initial_line: ... the snippet is indented by the difference of
\* the two indents when it is positive
DedentIndent ==
    /\ pc = "dedent_indent"
    /\ IF original_initial_line.is_none \/ original_initial_line.line = <<>>
       THEN pc' = "dedent_return" /\ UNCHANGED new_code_snippet
       ELSE LET lines == Splitlines(new_code_snippet)
            IN  IF lines = <<>>
                THEN pc' = "dedent_except" /\ UNCHANGED new_code_snippet
                ELSE LET suggested_initial_line == lines[1]
                         original_initial_spaces ==
                             InitialSpaces(original_initial_line.line)
                         suggested_initial_spaces ==
                             InitialSpaces(suggested_initial_line)
                         delta_spaces ==
                             original_initial_spaces - suggested_initial_spaces
                     IN  /\ pc' = "dedent_return"
                         /\ new_code_snippet' =
                               IF delta_spaces > 0
                               THEN RstripChars(
                                        TextwrapIndent(new_code_snippet,
                                                       Spaces(delta_spaces)),
                                        {NL})
                               ELSE new_code_snippet
    /\ UNCHANGED <<provider, diff_files, dedent_args, original_initial_line,
                   dedent_result>>
    /\ UNCHANGED <<settings, is_extended, model_idx, prediction, patches_diff_list,
                   prediction_list, parse_i, data, ext_events, rank_in, rank_response,
                   code_suggestions, push_i, published, failed, run_result>>

\* except Exception as e: the error is logged at verbosity_level >= 2
DedentExcept ==
    /\ pc = "dedent_except"
    /\ pc' = "dedent_return"
    /\ UNCHANGED dedent_vars
    /\ UNCHANGED <<settings, is_extended, model_idx, prediction, patches_diff_list,
                   prediction_list, parse_i, data, ext_events, rank_in, rank_response,
                   code_suggestions, push_i, published, failed, run_result>>

\* return new_code_snippet
DedentReturn ==
    /\ pc = "dedent_return"
    /\ pc' = "done"
    /\ dedent_result' = "returned"
    /\ UNCHANGED <<provider, diff_files, dedent_args, original_initial_line,
                   new_code_snippet>>
    /\ UNCHANGED <<settings, is_extended, model_idx, prediction, patches_diff_list,
                   prediction_list, parse_i, data, ext_events, rank_in, rank_response,
                   code_suggestions, push_i, published, failed, run_result>>

----------------------------------------------------------------------------
\* Inputs

\* final_clip_factor as num/den
One == [num |-> 1, den |-> 1]

ClipFactors ==
    {[num |-> 0, den |-> 1], [num |-> 1, den |-> 2], [num |-> 3, den |-> 4], One,
     [num |-> 5, den |-> 4]}

\* summarize stands for: pr_code_suggestions.summarize and
\* git_provider.is_supported("gfm_markdown")
\* A setting the run never reads in its mode is left at its default: the rank
\* switch of the other mode, the clip factor without ranking, summarize without
\* publish_output
RunSettings ==
    {st \in [publish_output : BOOLEAN, summarize : BOOLEAN,
             rank_suggestions : BOOLEAN, rank_extended_suggestions : BOOLEAN,
             final_clip_factor : {[num |-> 0, den |-> 1], One},
             num_code_suggestions : {1}, num_code_suggestions_per_chunk : {1}] :
        /\ st.summarize => st.publish_output
        /\ ~(st.rank_suggestions /\ st.rank_extended_suggestions)
        /\ st.final_clip_factor # One
              => (st.rank_suggestions \/ st.rank_extended_suggestions)}

RankSettings ==
    [publish_output : {FALSE}, summarize : {FALSE},
     rank_suggestions : {TRUE}, rank_extended_suggestions : {FALSE},
     final_clip_factor : ClipFactors,
     num_code_suggestions : {1, 3}, num_code_suggestions_per_chunk : {1, 4}]

DefaultSettings ==
    [publish_output |-> TRUE, summarize |-> FALSE,
     rank_suggestions |-> FALSE, rank_extended_suggestions |-> FALSE,
     final_clip_factor |-> One,
     num_code_suggestions |-> 4, num_code_suggestions_per_chunk |-> 4]

\* what _prepare_pr_code_suggestions lets through
RankPool == {s \in Suggestions : KeepsSuggestion(s) /\ IntOk(s.relevant_lines_start)}

\* the chunks' responses of an extended pass: two different suggestions and a no-op
ChunkPool ==
    {s \in Suggestions : IntOk(s.relevant_lines_start)
                         /\ (s.existing_code = "x=1" \/ KeepsSuggestion(s))}

ChunkPredictions == PredictionsOver(ChunkPool, {"dict"})

\* the responses of a run: two different suggestions and one whose int(...) raises
RunPool ==
    {s \in Suggestions : KeepsSuggestion(s)
                         /\ (s.existing_code = "x=1" \/ IntOk(s.relevant_lines_start))}

RunPredictions == PredictionsOver(RunPool, {"dict"})

\* the chunks' responses of a run in extended mode: one that does not parse, an
\* empty list, the two suggestions that coerce, the one that does not
RunChunkPredictions ==
    {InvalidPrediction} \cup
    {Prediction("dict", es) : es \in {es \in SeqsUpTo(RunPool, 2) :
        \/ Len(es) = 0
        \/ Len(es) = 1 /\ ~Coercible(es[1])
        \/ Len(es) = 2 /\ Coercible(es[1]) /\ Coercible(es[2])
                       /\ es[1].existing_code = "x=1" /\ es[2].existing_code = "x=2"}}

AllPredictions == PredictionsOver(Suggestions, {"list", "dict"})

NoRankResponse == RankResponse(FALSE, <<>>)

\* every Sort Order of at most n pairs over 0..n+1, or a response that raises
AllRankResponses(n) ==
    {NoRankResponse} \cup
    {RankResponse(TRUE, so) : so \in SeqsUpTo((0..(n + 1)) \X (0..(n + 1)), n)}

\* in the run: a response that raises, the identity, the reversal, one pair only
RunRankResponses(n) ==
    {NoRankResponse,
     RankResponse(TRUE, [i \in 1..n |-> <<i, i>>]),
     RankResponse(TRUE, [i \in 1..n |-> <<i, n + 1 - i>>]),
     RankResponse(TRUE, [i \in 1..Max2(n - 1, 0) |-> <<n, i>>])}

\* the snippets push_inline_code_suggestions hands to dedent_code: improved_code
\* after rstrip(), when it is not empty
Snippets ==
    {s \in SeqsUpTo({SP, NL, X}, MaxSnippet) : s # <<>> /\ s[Len(s)] \notin Whitespace}

\* relevant_lines_start after int(): line numbers are 1-based, the model may
\* write any integer
LineNumbers == -1 .. 3

RelevantFile == <<"a">>

Filenames == {<<"a">>, <<SP, "a", SP>>, <<"b">>}

\* head_file: None, an empty file, and files whose lines differ in their indent
HeadFiles ==
    {NoHead,
     HeadFile(<<>>),
     HeadFile(<<X>>),
     HeadFile(<<SP, SP, X>>),
     HeadFile(<<X, NL, SP, SP, X>>),
     HeadFile(<<TAB, X, NL>>),
     HeadFile(<<SP, SP, NL, X>>),
     HeadFile(<<NL, SP, X>>)}

Files == [filename : Filenames, head_file : HeadFiles]

\* the files that come before a file named as relevant_file
FirstFiles ==
    {[filename |-> <<"b">>, head_file |-> HeadFile(<<SP, SP, X>>)],
     [filename |-> <<"a">>, head_file |-> NoHead],
     [filename |-> <<"a">>, head_file |-> HeadFile(<<X>>)]}

FileLists ==
    {<<>>} \cup {<<f>> : f \in Files}
           \cup {<<f, g>> : f \in FirstFiles,
                            g \in {h \in Files : h.filename = <<"a">>}}

\* the git provider: its cached diff_files, or none and get_diff_files
\* returning a list or raising
Providers ==
    {[diff_files |-> l, get_diff_files |-> [raised |-> TRUE, files |-> <<>>]] :
        l \in FileLists \ {<<>>}}
    \cup {[diff_files |-> <<>>, get_diff_files |-> [raised |-> FALSE, files |-> l]] :
            l \in FileLists}
    \cup {[diff_files |-> <<>>, get_diff_files |-> [raised |-> TRUE, files |-> <<>>]]}


----------------------------------------------------------------------------
\* Specifications

\* no call of dedent_code is modelled
DedentIdle ==
    /\ provider = [diff_files |-> <<>>,
                   get_diff_files |-> [raised |-> TRUE, files |-> <<>>]]
    /\ diff_files = <<>>
    /\ dedent_args = [relevant_file |-> RelevantFile, relevant_lines_start |-> 1,
                      new_code_snippet |-> <<X>>]
    /\ original_initial_line = NoLine
    /\ new_code_snippet = <<X>>
    /\ dedent_result = "idle"

InitCommon ==
    /\ DedentIdle
    /\ model_idx = 1
    /\ patches_diff_list = <<>>
    /\ prediction_list = <<>>
    /\ parse_i = 1
    /\ ext_events = <<>>
    /\ rank_in = <<>>
    /\ rank_response = NoRankResponse
    /\ code_suggestions = <<>>
    /\ push_i = 1
    /\ published = <<>>
    /\ failed = {}
    /\ run_result = "running"

\* the state after __init__, as run starts
Init ==
    /\ settings \in RunSettings
    /\ is_extended \in BOOLEAN
    /\ settings.rank_suggestions => ~is_extended
    /\ settings.rank_extended_suggestions => is_extended
    /\ pc = "start"
    /\ prediction = Prediction("none", <<>>)
    /\ data = EmptyDict
    /\ InitCommon

Next ==
    \/ RunStart
    \/ PreparePrediction(RunPredictions)
    \/ RetryWithFallbackModels
    \/ RunParse
    \/ ExtGetDiffs
    \/ ExtModelCall(RunChunkPredictions)
    \/ ExtCallsDone
    \/ ExtParse
    \/ ExtReturn
    \/ RunCheckData
    \/ RankStep(RunRankResponses(Len(data.code_suggestions)))
    \/ RunPublish
    \/ RunSummarize
    \/ PushStart
    \/ PushBatch
    \/ PushEach
    \/ RunExcept

Spec == Init /\ [][Next]_vars

\* _prepare_pr_code_suggestions on every response
InitParse ==
    /\ settings = DefaultSettings
    /\ is_extended = FALSE
    /\ pc = "parse"
    /\ prediction \in AllPredictions
    /\ data = EmptyDict
    /\ InitCommon

NextParse == RunParse

SpecParse == InitParse /\ [][NextParse]_vars

\* one pass of _prepare_prediction_extended
InitExt ==
    /\ settings = DefaultSettings
    /\ is_extended = TRUE
    /\ pc = "ext_get_diffs"
    /\ prediction = Prediction("none", <<>>)
    /\ data = EmptyDict
    /\ InitCommon

NextExt ==
    \/ ExtGetDiffs
    \/ ExtModelCall(ChunkPredictions)
    \/ ExtCallsDone
    \/ ExtParse
    \/ ExtReturn

SpecExt == InitExt /\ [][NextExt]_vars

\* rank_suggestions on every list and every response
InitRank ==
    /\ settings \in RankSettings
    /\ is_extended = FALSE
    /\ pc = "rank"
    /\ prediction = Prediction("none", <<>>)
    /\ data \in {DictOf(list) : list \in SeqsUpTo(RankPool, MaxRank)}
    /\ InitCommon

NextRank == RankStep(AllRankResponses(Len(data.code_suggestions)))

SpecRank == InitRank /\ [][NextRank]_vars

\* dedent_code on every snippet, line number and provider
InitDedent ==
    /\ settings = DefaultSettings
    /\ is_extended = FALSE
    /\ pc = "dedent_lookup"
    /\ prediction = Prediction("none", <<>>)
    /\ data = EmptyDict
    /\ model_idx = 1
    /\ patches_diff_list = <<>>
    /\ prediction_list = <<>>
    /\ parse_i = 1
    /\ ext_events = <<>>
    /\ rank_in = <<>>
    /\ rank_response = NoRankResponse
    /\ code_suggestions = <<>>
    /\ push_i = 1
    /\ published = <<>>
    /\ failed = {}
    /\ run_result = "running"
    /\ provider \in Providers
    /\ diff_files = <<>>
    /\ dedent_args \in [relevant_file : {RelevantFile},
                        relevant_lines_start : LineNumbers,
                        new_code_snippet : Snippets]
    /\ original_initial_line = NoLine
    /\ new_code_snippet = dedent_args.new_code_snippet
    /\ dedent_result = "running"

NextDedent ==
    \/ DedentLookup
    \/ DedentIndent
    \/ DedentExcept
    \/ DedentReturn

SpecDedent == InitDedent /\ [][NextDedent]_vars


----------------------------------------------------------------------------
\* Properties

Differs(s) == s.existing_code # s.improved_code

\* the entries of a response that are no no-ops, in the response's order
Kept(entries) == SelectSeq(entries, Differs)

RECURSIVE ConcatKept(_, _)
ConcatKept(preds, n) ==
    IF n = 0 THEN <<>> ELSE ConcatKept(preds, n - 1) \o Kept(preds[n].entries)

\* C1: when _prepare_pr_code_suggestions returns, its code_suggestions is exactly
\* the subsequence of the response's entries whose existing_code differs from
\* improved_code, each unchanged and in the response's order, whether the
\* response was a top-level list or a dict; it raises only on a response that
\* holds no list of suggestions
C1_ParserKeepsExactlyTheDiffering ==
    /\ pc = "check_data" =>
          /\ prediction.shape \in {"list", "dict"}
          /\ data.has_key
          /\ data.code_suggestions = Kept(prediction.entries)
          /\ \A i \in 1..Len(prediction.entries) :
                prediction.entries[i].existing_code = prediction.entries[i].improved_code
                    => \A j \in 1..Len(data.code_suggestions) :
                          data.code_suggestions[j] # prediction.entries[i]
    /\ pc = "run_except" => prediction.shape \notin {"list", "dict"}

C1_Witness ==
    /\ pc = "check_data"
    /\ prediction.shape = "list"
    /\ Len(prediction.entries) = 2
    /\ Len(data.code_suggestions) = 1

\* C2: when the extended pass returns (every model call and parse succeeded),
\* its suggestion list is the concatenation in chunk order of the chunks'
\* filtered lists: nothing dropped, nothing deduplicated, its length the sum of
\* the chunks' counts; with no chunk at all the dict returned is {}
C2_ExtendedIsConcatenation ==
    pc = "check_data" =>
        /\ Len(prediction_list) = Len(patches_diff_list)
        /\ data.code_suggestions = ConcatKept(prediction_list, Len(prediction_list))
        /\ data.has_key <=> Len(patches_diff_list) >= 1

C2_Witness ==
    /\ pc = "check_data"
    /\ Len(prediction_list) = 2
    /\ Len(Kept(prediction_list[1].entries)) < Len(prediction_list[1].entries)
    /\ Kept(prediction_list[1].entries) # <<>>
    /\ Kept(prediction_list[1].entries) = Kept(prediction_list[2].entries)
    /\ Len(data.code_suggestions) = 2 * Len(Kept(prediction_list[1].entries))

Parseable(pred) == pred.shape \in {"list", "dict"}

ParseEvents == SelectSeq(ext_events, LAMBDA e : e[1] = "parse")

CallEvents == SelectSeq(ext_events, LAMBDA e : e[1] = "call")

\* C3 as claimed: a chunk whose response does not parse does not abort the
\* pass, and the pass returns the suggestions of the chunks that parse
C3_ParseFailureIsIsolated ==
    /\ ("parse" \in failed
           /\ \E i \in 1..Len(prediction_list) :
                 Parseable(prediction_list[i]) /\ Kept(prediction_list[i].entries) # <<>>)
          => pc # "ext_raised"
    /\ pc = "check_data" =>
          data.code_suggestions =
              ConcatKept(SelectSeq(prediction_list, Parseable),
                         Len(SelectSeq(prediction_list, Parseable)))

\* C3 as amended: the first chunk whose response does not parse aborts the
\* pass: the exception leaves _prepare_prediction_extended at that chunk, no
\* later chunk is parsed, and a pass that returns has parsed every chunk
C3_ParseFailureAbortsThePass ==
    /\ (pc = "ext_raised" /\ "parse" \in failed) =>
          /\ ParseEvents # <<>>
          /\ ~Parseable(prediction_list[Len(ParseEvents)])
          /\ \A i \in 1..(Len(ParseEvents) - 1) : Parseable(prediction_list[i])
          /\ ext_events[Len(ext_events)] = <<"parse", Len(ParseEvents)>>
    /\ pc \in {"ext_parse", "check_data"} =>
          \A i \in 1..(parse_i - 1) : Parseable(prediction_list[i])
    /\ pc = "check_data" =>
          /\ "parse" \notin failed
          /\ \A i \in 1..Len(prediction_list) : Parseable(prediction_list[i])

C3_Witness ==
    /\ pc = "ext_raised"
    /\ "parse" \in failed
    /\ Len(prediction_list) = 2
    /\ Len(ParseEvents) = 1
    /\ Kept(prediction_list[2].entries) # <<>>

\* C9 as claimed: the model call of chunk i+1 is made only after the call and
\* the parse of chunk i
C9_CallFollowsPreviousParse ==
    \A k \in 1..Len(ext_events) :
        (ext_events[k][1] = "call" /\ ext_events[k][2] > 1) =>
            /\ \E j \in 1..(k - 1) : ext_events[j] = <<"call", ext_events[k][2] - 1>>
            /\ \E j \in 1..(k - 1) : ext_events[j] = <<"parse", ext_events[k][2] - 1>>

\* C9 as amended: the model calls are made one after another in chunk order,
\* and the responses are parsed one after another in chunk order only after the
\* model call of the last chunk has completed
C9_CallsThenParses ==
    /\ ext_events = CallEvents \o ParseEvents
    /\ \A k \in 1..Len(CallEvents) : CallEvents[k] = <<"call", k>>
    /\ \A k \in 1..Len(ParseEvents) : ParseEvents[k] = <<"parse", k>>
    /\ Len(CallEvents) <= Len(patches_diff_list)
    /\ ParseEvents # <<>> =>
          /\ Len(CallEvents) = Len(patches_diff_list)
          /\ Len(prediction_list) = Len(patches_diff_list)

C9_Witness ==
    /\ pc = "check_data"
    /\ Len(patches_diff_list) = 2
    /\ ext_events = <<<<"call", 1>>, <<"call", 2>>, <<"parse", 1>>, <<"parse", 2>>>>

----------------------------------------------------------------------------
\* Properties of rank_suggestions (pc = "publish": it has returned)

SortOrder == rank_response.sort_order

\* the Sort Order is a complete bijection over 1..n
ValidBijection(n) ==
    /\ rank_response.ok
    /\ Len(SortOrder) = n
    /\ {SortOrder[k][1] : k \in 1..Len(SortOrder)} = 1..n
    /\ {SortOrder[k][2] : k \in 1..Len(SortOrder)} = 1..n

Count(list, x) == Cardinality({i \in 1..Len(list) : list[i] = x})

\* C4 as claimed (taken with final_clip_factor = 1, so that nothing is clipped):
\* a response that raises or whose Sort Order is no complete bijection over 1..N
\* leaves the N suggestions in their original order, and the list returned
\* never holds an unfilled slot
C4_InvalidOrderKeepsOriginal ==
    (pc = "publish" /\ settings.final_clip_factor = One) =>
        /\ ~ValidBijection(Len(rank_in)) => data.code_suggestions = rank_in
        /\ \A i \in 1..Len(data.code_suggestions) : data.code_suggestions[i] # EmptySlot
        /\ \A x \in RankPool : Count(data.code_suggestions, x) <= Count(rank_in, x)

\* C5: with a complete bijection and final_clip_factor = 1 the list returned is
\* a permutation of the input in which the suggestion at position s of the input
\* is at position r of the output, for every pair (s, r) of the Sort Order
C5_BijectionPermutes ==
    (pc = "publish" /\ ValidBijection(Len(rank_in)) /\ settings.final_clip_factor = One) =>
        /\ Len(data.code_suggestions) = Len(rank_in)
        /\ \A k \in 1..Len(SortOrder) :
              data.code_suggestions[SortOrder[k][2]] = rank_in[SortOrder[k][1]]
        /\ \A x \in RankPool \cup {EmptySlot} :
              Count(data.code_suggestions, x) = Count(rank_in, x)

C5_Witness ==
    /\ pc = "publish"
    /\ settings.final_clip_factor = One
    /\ Len(rank_in) = 2
    /\ rank_in[1] # rank_in[2]
    /\ SortOrder = <<<<1, 2>>, <<2, 1>>>>
    /\ data.code_suggestions = <<rank_in[2], rank_in[1]>>

\* the ranking went through: the response parsed and no index was out of range
RankingSucceeded ==
    /\ rank_response.ok
    /\ \A k \in 1..Len(SortOrder) :
          /\ SortOrder[k][1] - 1 \in (-Len(rank_in))..(Len(rank_in) - 1)
          /\ SortOrder[k][2] - 1 \in (-Len(rank_in))..(Len(rank_in) - 1)

Max3(a, b, c) ==
    CHOOSE m \in {a, b, c} : m >= a /\ m >= b /\ m >= c

\* the integer nearest to m * num/den, halves upwards
Round(m, factor) ==
    CHOOSE r \in 0..(m * factor.num + 1) :
        /\ 2 * factor.den * r - factor.den <= 2 * m * factor.num
        /\ 2 * m * factor.num < 2 * factor.den * r + factor.den

\* the list as ranked, before it is clipped
Ranked ==
    PlaceLoop(rank_in, SortOrder, 1, [i \in 1..Len(rank_in) |-> EmptySlot]).data_sorted

\* C6: after a ranking that went through, of L suggestions with clip factor c
\* (c >= 0, round to nearest with halves upwards), the list returned has length
\* min(L, round(max(L, num_code_suggestions, num_code_suggestions_per_chunk) * c)),
\* it is a prefix of the ranked list, and with c = 1 its length is L
C6_ClipLength ==
    (pc = "publish" /\ RankingSucceeded) =>
        LET L == Len(rank_in)
            c == settings.final_clip_factor
            max_len == Max3(L, settings.num_code_suggestions,
                            settings.num_code_suggestions_per_chunk)
            rounded == Round(max_len, c)
            out == data.code_suggestions
        IN  /\ Len(out) = IF L <= rounded THEN L ELSE rounded
            /\ Len(out) <= L
            /\ out = SubSeq(Ranked, 1, Len(out))
            /\ c = One => Len(out) = L

C6_Witness ==
    /\ pc = "publish"
    /\ RankingSucceeded
    /\ Len(rank_in) = 2
    /\ rank_in[1] # rank_in[2]
    /\ SortOrder = <<<<1, 2>>, <<2, 1>>>>
    /\ settings.final_clip_factor = [num |-> 1, den |-> 2]
    /\ settings.num_code_suggestions = 1
    /\ settings.num_code_suggestions_per_chunk = 1
    /\ data.code_suggestions = <<rank_in[2]>>

----------------------------------------------------------------------------
\* Properties of run

IsNoSuggestionsMessage(e) ==
    e.call = "publish_comment" /\ e.text = NoSuggestionsText

\* C7 as claimed: a run with publish_output in which nothing raised and whose
\* suggestion set is empty (the {} of an extended pass over no chunk included)
\* has published the "No suggestions found" message by the time it ends
C7_EmptySetIsAnnounced ==
    (pc = "done" /\ settings.publish_output /\ failed = {}
        /\ Len(data.code_suggestions) = 0)
        => \E k \in 1..Len(published) : IsNoSuggestionsMessage(published[k])

\* C8: run never raises: whichever step raised, the exception reaches the
\* handler of run, and run ends by returning
C8_RunNeverRaises ==
    /\ run_result # "raised"
    /\ pc = "done" => run_result = "returned"
    /\ pc = "run_except" => failed # {}
    /\ pc # "done" => ENABLED Next

C8_Witness ==
    /\ pc = "done"
    /\ run_result = "returned"
    /\ {"model_call", "retry_with_fallback_models"} \subseteq failed

IsSuggestionsCall(e) == e.call = "publish_code_suggestions"

SuggestionCalls == SelectSeq(published, IsSuggestionsCall)

CoercibleItems == SelectSeq(data.code_suggestions, Coercible)

\* the comments of the suggestions whose fields coerce, in suggestion order
ExpectedComments ==
    [i \in 1..Len(CoercibleItems) |->
        [body |-> CoercibleItems[i].improved_code, relevant_lines_start |-> 10]]

\* push_inline_code_suggestions has run to its end on a non-empty set, every
\* publish_code_suggestions call having returned
PushedInline ==
    /\ pc = "done"
    /\ settings.publish_output
    /\ ~settings.summarize
    /\ failed \cap {"remove_initial_comment", "publish_code_suggestions"} = {}
    /\ \E k \in 1..Len(published) : published[k].call = "remove_initial_comment"
    /\ Len(data.code_suggestions) > 0

\* C10: for a non-empty set the first publish_code_suggestions call carries all
\* the comments that could be built, in suggestion order (a suggestion whose
\* fields do not coerce is skipped, the others kept); if it returned success no
\* other call follows; if it returned failure, the comments are then published
\* one per call, in the same order, and the run returns
C10_BatchThenEach ==
    /\ SuggestionCalls # <<>> =>
          /\ SuggestionCalls[1].comments = ExpectedComments
          /\ SuggestionCalls[1].returned => Len(SuggestionCalls) = 1
          /\ Len(SuggestionCalls) <= 1 + Len(ExpectedComments)
          /\ \A i \in 2..Len(SuggestionCalls) :
                SuggestionCalls[i].comments = <<ExpectedComments[i - 1]>>
    /\ PushedInline =>
          /\ run_result = "returned"
          /\ SuggestionCalls # <<>>
          /\ ~SuggestionCalls[1].returned =>
                Len(SuggestionCalls) = 1 + Len(ExpectedComments)

C10_Witness ==
    /\ PushedInline
    /\ Len(data.code_suggestions) = 3
    /\ Len(ExpectedComments) = 2
    /\ ExpectedComments[1] # ExpectedComments[2]
    /\ Len(SuggestionCalls) = 3
    /\ ~SuggestionCalls[1].returned

----------------------------------------------------------------------------
\* Properties of dedent_code

DedentReturned == pc = "done" /\ dedent_result = "returned"

\* the files dedent_code is given to search
GivenFiles ==
    IF provider.diff_files # <<>> THEN provider.diff_files
    ELSE IF provider.get_diff_files.raised THEN <<>>
    ELSE provider.get_diff_files.files

\* the lines of the file the suggestion is about, <<>> if it cannot be looked up
OriginalLines ==
    LET m == FirstMatch(GivenFiles, dedent_args.relevant_file, 1)
    IN  IF m = 0 \/ GivenFiles[m].head_file.is_none THEN <<>>
        ELSE Splitlines(GivenFiles[m].head_file.text)

\* the file has a line numbered relevant_lines_start
LineExists == dedent_args.relevant_lines_start \in 1..Len(OriginalLines)

\* o: the leading whitespace of the original line at relevant_lines_start
IndentO == InitialSpaces(OriginalLines[dedent_args.relevant_lines_start])

\* s: the leading whitespace of the first line of the suggested snippet
IndentS == InitialSpaces(Splitlines(dedent_args.new_code_snippet)[1])

\* every line of the snippet handed in, n spaces further in
EveryLineGains(n) ==
    LET lines == Splitlines(dedent_args.new_code_snippet)
    IN  [i \in 1..Len(lines) |-> Spaces(n) \o lines[i]]

\* C11: dedent_code returns and no exception escapes it; when the file has the
\* line relevant_lines_start and its indent o exceeds the indent s of the
\* snippet's first line, every line of the returned snippet, blank and
\* whitespace-only lines included, is the line handed in with o - s spaces put
\* before it; when o <= s, or the file or the line cannot be looked up, the
\* snippet is returned as it was handed in
C11_DedentAddsDelta ==
    /\ dedent_result # "raised"
    /\ DedentReturned =>
          IF LineExists /\ IndentO > IndentS
          THEN Splitlines(new_code_snippet) = EveryLineGains(IndentO - IndentS)
          ELSE new_code_snippet = dedent_args.new_code_snippet

====
